---- MODULE Spec2Model ----
(***************************************************************************)
(* A model of the dotfiles manager: the mapping-set validation of          *)
(* config.rs, the repository walker and the link-state classifier of       *)
(* commands/status.rs, and the change planner and plan execution of        *)
(* commands/add.rs.                                                        *)
(*                                                                         *)
(* A path is the sequence of its components (std::path compares, orders    *)
(* and prefixes paths component by component).  A component is a natural   *)
(* number; the order of the numbers stands for the byte order of the       *)
(* component names.  An absolute path is the sequence of its components    *)
(* below "/", so <<>> is "/" itself when read as an absolute path, and the *)
(* empty relative path when read as a relative one.                        *)
(***************************************************************************)
EXTENDS Integers, Sequences, FiniteSets, TLC

VARIABLES
    pc,             \* position of the running command
    fs,             \* the filesystem: absolute path -> node, for existing paths
    home_dir,       \* get_home_dir()
    dotfiles_root,  \* global_args.dotfiles_root
    mappings,       \* config.mappings of the loaded AppConfig
    config_file,    \* the mappings stored in the config file on disk
    queue,          \* get_dotfiles_entries: the work queue
    dotfiles,       \* get_dotfiles_entries: the entries collected so far
    first_run,      \* the entries returned by the first walker run
    entry,          \* get_dotfiles_entry_state: the entry to classify
    path,           \* add: the path argument
    changes,        \* add: the RequiredChanges still to apply
    skipped,        \* add: the SkippingChanges of the plan
    adds,           \* number of add commands started so far
    prev,           \* how the previous add command ended
    result          \* outcome of the last operation

vars == <<pc, fs, home_dir, dotfiles_root, mappings, config_file, queue,
          dotfiles, first_run, entry, path, changes, skipped, adds, prev, result>>

\* the variables of the add command
addVars == <<path, changes, skipped, adds, prev>>

\* the variables of the walker
walkVars == <<queue, dotfiles, first_run>>

(***************************************************************************)
(* Bounds and input universes                                              *)
(***************************************************************************)
\* longest mapping list handed to validate_nested_mappings
MaxLen == 3

\* most mappings in a config the walker and the add command start from
MaxMappings == 2

\* component names used below the two roots
Names == {1, 2}

\* relative paths of one or two components
RelPaths == {<<a>> : a \in Names} \cup {<<a, b>> : a \in Names, b \in Names}

\* the paths a mapping list is validated over: the empty path and up to three
\* components
ValPaths ==
    {<<>>} \cup RelPaths \cup {<<a, b, c>> : a \in Names, b \in Names, c \in Names}

\* sequences over S of length at most n
SeqsUpTo(S, n) == UNION {[1..k -> S] : k \in 0..n}

(***************************************************************************)
(* std::path                                                               *)
(***************************************************************************)
\* path.starts_with(base): base is a component-wise prefix of path
StartsWith(p, base) ==
    /\ Len(base) <= Len(p)
    /\ \A i \in 1..Len(base) : p[i] = base[i]

\* path.strip_prefix(base).unwrap()
StripPrefix(p, base) == SubSeq(p, Len(base) + 1, Len(p))

\* base.join(rel) for a relative rel
Join(base, rel) == base \o rel

\* Ord for Path: lexicographic over the components, a proper prefix first
PathLess(a, b) ==
    \E i \in 1..(Len(a) + 1) :
        /\ i <= Len(b)
        /\ \A j \in 1..(i - 1) : a[j] = b[j]
        /\ (i = Len(a) + 1 \/ a[i] < b[i])

\* insertion of p before the first element greater than it
RECURSIVE InsertSorted(_, _)
InsertSorted(s, p) ==
    IF s = <<>> THEN <<p>>
    ELSE IF PathLess(p, Head(s)) THEN <<p>> \o s
         ELSE <<Head(s)>> \o InsertSorted(Tail(s), p)

\* a version of the sort that leaves the list as it is
SortPathsUnsorted(s) == s

\* mappings.sort(): the stable ascending sort of a list of paths
RECURSIVE SortPaths(_)
SortPaths(s) ==
    IF s = <<>> THEN <<>>
    ELSE InsertSorted(SortPaths(SubSeq(s, 1, Len(s) - 1)), s[Len(s)])

(***************************************************************************)
(* config.rs                                                               *)
(***************************************************************************)
NoPath == <<>>

ValidateOk == [ok |-> TRUE, nested |-> NoPath, parent |-> NoPath]

\* Err(AppError::ConfigNestedLinks(nested, parent))
ConfigNestedLinks(nested, parent) == [ok |-> FALSE, nested |-> nested, parent |-> parent]

\* AppConfig::validate_nested_mappings
validate_nested_mappings(ms) ==
    IF Len(ms) = 0 THEN ValidateOk
    ELSE
        LET sorted == SortPaths(ms)
            bad == {i \in 1..(Len(sorted) - 1) : StartsWith(sorted[i + 1], sorted[i])}
        IN  IF bad = {} THEN ValidateOk
            ELSE LET i == CHOOSE k \in bad : \A l \in bad : k <= l
                 IN  ConfigNestedLinks(sorted[i + 1], sorted[i])

\* the components a stored path may start with: Component::CurDir for a leading
\* "./" and Component::RootDir for a leading "/"
CurDir == 8
RootDir == 9

\* Path::is_absolute
is_absolute(p) == p # <<>> /\ p[1] = RootDir

\* a version of the deserializer that keeps the paths as they are stored
into_normalized_mapping_as_stored(input) == input

\* the serde deserializer of mappings: a leading "./" is removed from every path
into_normalized_mapping(input) ==
    [i \in 1..Len(input) |->
        IF StartsWith(input[i], <<CurDir>>)
        THEN StripPrefix(input[i], <<CurDir>>)
        ELSE input[i]]

\* Err(AppError::ConfigAbsoluteLink(link))
ConfigAbsoluteLink(link) == [ok |-> FALSE, link |-> link]

\* AppConfig::validate_absolute_mappings: the first absolute path is reported
validate_absolute_mappings(ms) ==
    LET bad == {i \in 1..Len(ms) : is_absolute(ms[i])}
    IN  IF bad = {} THEN [ok |-> TRUE, link |-> NoPath]
        ELSE ConfigAbsoluteLink(ms[CHOOSE k \in bad : \A l \in bad : k <= l])

\* what from_config_file returns for a config file that exists and parses
LoadResult(kind, a, b, ms) ==
    [ok |-> kind = "none", error |-> [kind |-> kind, a |-> a, b |-> b], mappings |-> ms]

\* AppConfig::from_config_file for a config file with the stored mappings
from_config_file(stored) ==
    LET ms == into_normalized_mapping(stored)
        absolute == validate_absolute_mappings(ms)
    IN  IF ~absolute.ok
        THEN LoadResult("ConfigAbsoluteLink", absolute.link, NoPath, <<>>)
        ELSE LET nested == validate_nested_mappings(ms)
             IN  IF ~nested.ok
                 THEN LoadResult("ConfigNestedLinks", nested.nested, nested.parent, <<>>)
                 ELSE LoadResult("none", NoPath, NoPath, ms)

(***************************************************************************)
(* The filesystem.  fs maps every existing absolute path, written without  *)
(* symlinks in its directory part, to its node.  "/" is a directory.       *)
(***************************************************************************)
NoNode == [kind |-> "none", target |-> NoPath]
FileNode == [kind |-> "file", target |-> NoPath]
DirNode == [kind |-> "dir", target |-> NoPath]
SymlinkNode(t) == [kind |-> "link", target |-> t]

\* the answer of a path resolution that fails (no component is 0)
Missing == <<0>>

\* symlinks followed in one resolution before it fails (ELOOP)
MaxSymlinkHops == 3

Parent(p) == SubSeq(p, 1, Len(p) - 1)

\* the node stored at a location whose directory part holds no symlink
NodeAt(f, p) ==
    IF p = <<>> THEN DirNode ELSE IF p \in DOMAIN f THEN f[p] ELSE NoNode

\* the location a path resolves to with every symlink followed, or Missing
RECURSIVE RealPath(_, _, _)

\* the location of the entry `name` of the directory at location dir, with the
\* entry followed when it is a symlink, or Missing
ResolveEntry(f, dir, name, hops) ==
    IF dir = Missing \/ NodeAt(f, dir).kind # "dir" THEN Missing
    ELSE IF NodeAt(f, dir \o <<name>>).kind = "none" THEN Missing
    ELSE IF NodeAt(f, dir \o <<name>>).kind = "link"
         THEN IF hops = 0 THEN Missing
              ELSE RealPath(f, NodeAt(f, dir \o <<name>>).target, hops - 1)
         ELSE dir \o <<name>>

\* the location a path resolves to with every symlink followed, or Missing; the
\* directory part is resolved once
RealPath(f, p, hops) ==
    IF p = <<>> THEN <<>>
    ELSE CHOOSE r \in {ResolveEntry(f, dir, p[Len(p)], hops) :
                          dir \in {RealPath(f, Parent(p), hops)}} : TRUE

\* Path::exists: the path resolves, symlinks followed
Exists(f, p) == RealPath(f, p, MaxSymlinkHops) # Missing

\* Path::is_dir: the path resolves to a directory, symlinks followed
IsDir(f, p) ==
    /\ Exists(f, p)
    /\ NodeAt(f, RealPath(f, p, MaxSymlinkHops)).kind = "dir"

\* fs::symlink_metadata: the node the path names, its last component not followed
SymlinkMetadata(f, p) ==
    IF p = <<>> THEN DirNode
    ELSE LET dir == RealPath(f, Parent(p), MaxSymlinkHops)
         IN  IF dir = Missing \/ NodeAt(f, dir).kind # "dir" THEN NoNode
             ELSE NodeAt(f, dir \o <<p[Len(p)]>>)

\* fs::read_link: the stored target of the symlink the path names
ReadLink(f, p) == SymlinkMetadata(f, p).target

\* fs::read_dir: the entries of a directory, each as dir.join(name); the
\* directory is resolved once
ReadDir(f, dir) ==
    UNION {{dir \o <<q[Len(q)]>> :
                q \in {r \in DOMAIN f : Len(r) = Len(real) + 1 /\ StartsWith(r, real)}} :
              real \in {RealPath(f, dir, MaxSymlinkHops)}}

\* the orders in which read_dir may yield a set of entries
Orderings(S) ==
    UNION {{s \in [1..Cardinality(entries) -> entries] :
                \A i, j \in 1..Cardinality(entries) : s[i] = s[j] => i = j} :
              entries \in {S}}

(***************************************************************************)
(* commands/status.rs: get_dotfiles_entries                                *)
(***************************************************************************)
\* a DotfilesEntry: (PathBuf, DotfilesEntryState)
DotfilesEntry(p, st) == [path |-> p, state |-> st]

\* mappings.contains(&p)
Contains(ms, p) == \E i \in 1..Len(ms) : ms[i] = p

\* mappings.into_iter().any(|m| m.starts_with(&p))
AnyStartsWith(ms, p) == \E i \in 1..Len(ms) : StartsWith(ms[i], p)

\* insertion of an entry before the first entry with a greater path
RECURSIVE InsertEntrySorted(_, _)
InsertEntrySorted(es, e) ==
    IF es = <<>> THEN <<e>>
    ELSE IF PathLess(e.path, Head(es).path) THEN <<e>> \o es
         ELSE <<Head(es)>> \o InsertEntrySorted(Tail(es), e)

\* a version of the sort that leaves the entries in the order of discovery
SortEntriesUnsorted(es) == es

\* dotfiles.sort_by(|a, b| a.0.partial_cmp(&b.0).unwrap())
RECURSIVE SortEntries(_)
SortEntries(es) ==
    IF es = <<>> THEN <<>>
    ELSE CHOOSE r \in {InsertEntrySorted(sorted, es[Len(es)]) :
                          sorted \in {SortEntries(SubSeq(es, 1, Len(es) - 1))}} : TRUE

\* dotfiles.binary_search_by(|(path, _)| path.cmp(mapping)) on a sorted list:
\* found, or the position that keeps the list sorted
BinarySearch(es, m) ==
    [found |-> \E i \in 1..Len(es) : es[i].path = m,
     pos |-> Cardinality({i \in 1..Len(es) : PathLess(es[i].path, m)})]

\* Vec::insert(pos, e)
InsertAt(es, pos, e) == SubSeq(es, 1, pos) \o <<e>> \o SubSeq(es, pos + 1, Len(es))

\* a version of the loop that pushes the Invalid entries at the end
RECURSIVE InsertInvalidAtEnd(_, _)
InsertInvalidAtEnd(es, ms) ==
    IF ms = <<>> THEN es
    ELSE InsertInvalidAtEnd(
             IF BinarySearch(es, Head(ms)).found THEN es
             ELSE Append(es, DotfilesEntry(Head(ms), "Invalid")),
             Tail(ms))

\* the loop over the mappings that inserts the ones not found as Invalid
RECURSIVE InsertInvalid(_, _)

\* one iteration of that loop, for mapping m
InsertIfNotFound(es, m) ==
    LET r == BinarySearch(es, m)
    IN  IF r.found THEN es ELSE InsertAt(es, r.pos, DotfilesEntry(m, "Invalid"))

InsertInvalid(es, ms) ==
    IF ms = <<>> THEN es
    ELSE CHOOSE r \in {InsertInvalid(next, Tail(ms)) :
                          next \in {InsertIfNotFound(es, Head(ms))}} : TRUE

\* the variables get_dotfiles_entries leaves alone
WalkUnchanged ==
    UNCHANGED <<fs, home_dir, dotfiles_root, mappings, config_file, entry,
                addVars, result>>

\* the queue is seeded with the entries of the repository root, in the order
\* read_dir yields them
WalkSeed ==
    /\ pc = "walk_seed"
    /\ \E order \in Orderings(ReadDir(fs, dotfiles_root)) : queue' = order
    /\ dotfiles' = <<>>
    /\ pc' = "walk"
    /\ UNCHANGED first_run
    /\ WalkUnchanged

\* a version of WalkMapped that also traverses a mapped directory
WalkMappedTraversed ==
    /\ pc = "walk"
    /\ queue # <<>>
    /\ LET rel_path == StripPrefix(Head(queue), dotfiles_root)
       IN  /\ Contains(mappings, rel_path)
           /\ dotfiles' = Append(dotfiles, DotfilesEntry(rel_path, "Mapped"))
           /\ \E order \in Orderings(ReadDir(fs, Head(queue))) :
                  queue' = Tail(queue) \o order
    /\ UNCHANGED <<pc, first_run>>
    /\ WalkUnchanged

\* one iteration: the popped entry is mapped
WalkMapped ==
    /\ pc = "walk"
    /\ queue # <<>>
    /\ LET rel_path == StripPrefix(Head(queue), dotfiles_root)
       IN  /\ Contains(mappings, rel_path)
           /\ dotfiles' = Append(dotfiles, DotfilesEntry(rel_path, "Mapped"))
    /\ queue' = Tail(queue)
    /\ UNCHANGED <<pc, first_run>>
    /\ WalkUnchanged

\* a version of WalkUnmapped without the test for mappings into the entry
WalkUnmappedNoPrefixTest ==
    /\ pc = "walk"
    /\ queue # <<>>
    /\ LET rel_path == StripPrefix(Head(queue), dotfiles_root)
       IN  /\ ~Contains(mappings, rel_path)
           /\ dotfiles' = Append(dotfiles, DotfilesEntry(rel_path, "Unmapped"))
    /\ queue' = Tail(queue)
    /\ UNCHANGED <<pc, first_run>>
    /\ WalkUnchanged

\* one iteration: no mapping on or into the popped entry
WalkUnmapped ==
    /\ pc = "walk"
    /\ queue # <<>>
    /\ LET rel_path == StripPrefix(Head(queue), dotfiles_root)
       IN  /\ ~Contains(mappings, rel_path)
           /\ ~AnyStartsWith(mappings, rel_path)
           /\ dotfiles' = Append(dotfiles, DotfilesEntry(rel_path, "Unmapped"))
    /\ queue' = Tail(queue)
    /\ UNCHANGED <<pc, first_run>>
    /\ WalkUnchanged

\* a version of WalkTraverse that tests the directory with symlinks followed
WalkTraverseFollows ==
    /\ pc = "walk"
    /\ queue # <<>>
    /\ LET rel_path == StripPrefix(Head(queue), dotfiles_root)
       IN  /\ ~Contains(mappings, rel_path)
           /\ AnyStartsWith(mappings, rel_path)
    /\ IsDir(fs, Head(queue))
    /\ \E order \in Orderings(ReadDir(fs, Head(queue))) :
           queue' = Tail(queue) \o order
    /\ UNCHANGED <<pc, dotfiles, first_run>>
    /\ WalkUnchanged

\* a version of WalkTraverse that also adds the traversed directory to the output
WalkTraverseEmits ==
    /\ pc = "walk"
    /\ queue # <<>>
    /\ LET rel_path == StripPrefix(Head(queue), dotfiles_root)
       IN  /\ ~Contains(mappings, rel_path)
           /\ AnyStartsWith(mappings, rel_path)
           /\ dotfiles' = Append(dotfiles, DotfilesEntry(rel_path, "Unmapped"))
    /\ SymlinkMetadata(fs, Head(queue)).kind = "dir"
    /\ \E order \in Orderings(ReadDir(fs, Head(queue))) :
           queue' = Tail(queue) \o order
    /\ UNCHANGED <<pc, first_run>>
    /\ WalkUnchanged

\* one iteration: a real directory with mappings into it is traversed
WalkTraverse ==
    /\ pc = "walk"
    /\ queue # <<>>
    /\ LET rel_path == StripPrefix(Head(queue), dotfiles_root)
       IN  /\ ~Contains(mappings, rel_path)
           /\ AnyStartsWith(mappings, rel_path)
    /\ SymlinkMetadata(fs, Head(queue)).kind = "dir"
    /\ \E order \in Orderings(ReadDir(fs, Head(queue))) :
           queue' = Tail(queue) \o order
    /\ UNCHANGED <<pc, dotfiles, first_run>>
    /\ WalkUnchanged

\* one iteration: a file or symlink on the way to a mapping is dropped
WalkSkip ==
    /\ pc = "walk"
    /\ queue # <<>>
    /\ LET rel_path == StripPrefix(Head(queue), dotfiles_root)
       IN  /\ ~Contains(mappings, rel_path)
           /\ AnyStartsWith(mappings, rel_path)
    /\ SymlinkMetadata(fs, Head(queue)).kind # "dir"
    /\ queue' = Tail(queue)
    /\ UNCHANGED <<pc, dotfiles, first_run>>
    /\ WalkUnchanged

\* the queue is empty: sort, insert the Invalid entries, return
WalkReturn ==
    /\ pc = "walk"
    /\ queue = <<>>
    /\ dotfiles' = InsertInvalid(SortEntries(dotfiles), mappings)
    /\ pc' = "walked"
    /\ UNCHANGED <<queue, first_run>>
    /\ WalkUnchanged

\* the walker is run a second time on the unchanged filesystem and mappings
WalkAgain ==
    /\ pc = "walked"
    /\ first_run = <<>>
    /\ first_run' = <<dotfiles>>
    /\ pc' = "walk_seed"
    /\ UNCHANGED <<queue, dotfiles>>
    /\ WalkUnchanged

(***************************************************************************)
(* commands/status.rs: get_dotfiles_entry_state                            *)
(***************************************************************************)
\* a LinkState; path is the payload of Invalid, ConflictWrongTarget and
\* ConflictNoLink
LinkState(st, p) == [state |-> st, path |-> p]

\* get_dotfiles_entry_state(global_args, entry, target_dir) on filesystem f
get_dotfiles_entry_state(f, root, e, target_dir) ==
    LET actual_file_path == Join(target_dir, e.path)
        expected_target == Join(root, e.path)
    IN  IF e.state = "Invalid" THEN LinkState("Invalid", expected_target)
        ELSE IF e.state = "Unmapped" THEN LinkState("Unmapped", NoPath)
        ELSE IF ~Exists(f, actual_file_path) THEN LinkState("Unlinked", NoPath)
        ELSE IF SymlinkMetadata(f, actual_file_path).kind # "link"
             THEN LinkState("ConflictNoLink", actual_file_path)
        ELSE IF ReadLink(f, actual_file_path) # expected_target
             THEN LinkState("ConflictWrongTarget", ReadLink(f, actual_file_path))
        ELSE LinkState("Linked", NoPath)

(***************************************************************************)
(* commands/add.rs: get_required_changes                                   *)
(***************************************************************************)
\* RequiredChanges
AddMapping(p) == [kind |-> "AddMapping", from |-> p, to |-> NoPath]
CreateSymlink(from, to) == [kind |-> "CreateSymlink", from |-> from, to |-> to]
MoveFile(from, to) == [kind |-> "MoveFile", from |-> from, to |-> to]

\* add::Error and the AppErrors of the add command; a and b are the payload
AddError(kind, a, b) == [kind |-> kind, a |-> a, b |-> b]
NoError == AddError("none", NoPath, NoPath)

\* the two entries of SkippingChanges
SkipMapped == "This path is already mapped, no need to update config."
SkipLinked == "no symlink will be created, paths are already linked."

\* let is_in_dotfiles = path.starts_with(&dotfiles_root)
is_in_dotfiles(root, p) == StartsWith(p, root)

\* let is_in_home_dir = path.starts_with(&home_dir) && !is_in_dotfiles
is_in_home_dir(root, home, p) == StartsWith(p, home) /\ ~is_in_dotfiles(root, p)

\* a version of mappings_path that strips the home directory first
mappings_path_home_first(root, home, p) ==
    IF StartsWith(p, home) THEN StripPrefix(p, home)
    ELSE IF is_in_dotfiles(root, p) THEN StripPrefix(p, root)
    ELSE NoPath

\* let mappings_path = ...: the path relative to the root it lies in; NoPath in
\* the case that returns OutsideValidDir
mappings_path(root, home, p) ==
    IF is_in_dotfiles(root, p) THEN StripPrefix(p, root)
    ELSE IF is_in_home_dir(root, home, p) THEN StripPrefix(p, home)
    ELSE NoPath

\* the result of get_required_changes, with its classification of the path
PlanResult(err, chs, sk, root, home, p) ==
    [ok |-> err = NoError, error |-> err,
     changes |-> IF err = NoError THEN chs ELSE <<>>,
     skipped |-> IF err = NoError THEN sk ELSE <<>>,
     is_in_dotfiles |-> is_in_dotfiles(root, p),
     is_in_home_dir |-> is_in_home_dir(root, home, p),
     mappings_path |-> mappings_path(root, home, p)]

\* a version of the loop that tests one direction only
NestingErrorOnlyAbove(ms, mp) ==
    LET bad == {i \in 1..Len(ms) : StartsWith(mp, ms[i])}
    IN  IF bad = {} THEN NoError
        ELSE LET i == CHOOSE k \in bad : \A l \in bad : k <= l
             IN  AddError("ExistingChild", mp, ms[i])

\* the loop over config.mappings: the error of the first mapping that nests with
\* mp, or NoError
NestingError(ms, mp) ==
    LET bad == {i \in 1..Len(ms) : StartsWith(ms[i], mp) \/ StartsWith(mp, ms[i])}
    IN  IF bad = {} THEN NoError
        ELSE LET i == CHOOSE k \in bad : \A l \in bad : k <= l
             IN  IF StartsWith(ms[i], mp) THEN AddError("ExistingParent", mp, ms[i])
                 ELSE AddError("ExistingChild", mp, ms[i])

\* a version of the mapping step that adds the mapping also when it is there
MappingStepAlwaysAdds(ms, mp) == [changes |-> <<AddMapping(mp)>>, skipped |-> <<>>]

\* the mapping step: the changes and skipped steps it pushes
MappingStep(ms, mp) ==
    IF Contains(ms, mp) THEN [changes |-> <<>>, skipped |-> <<SkipMapped>>]
    ELSE [changes |-> <<AddMapping(mp)>>, skipped |-> <<>>]

\* homedir_path is a symlink whose stored target is dotfiles_path
IsLinkedTo(f, homedir_path, dotfiles_path) ==
    /\ SymlinkMetadata(f, homedir_path).kind = "link"
    /\ ReadLink(f, homedir_path) = dotfiles_path

\* a version of the last step that pushes the symlink before the move
MoveAndLinkLinkFirst(f, homedir_path, dotfiles_path) ==
    <<CreateSymlink(homedir_path, dotfiles_path)>>
        \o (IF Exists(f, homedir_path)
            THEN <<MoveFile(homedir_path, dotfiles_path)>>
            ELSE <<>>)

\* the changes pushed when the two paths do not both exist: the move, when the
\* home path exists, and then the symlink
MoveAndLink(f, homedir_path, dotfiles_path) ==
    (IF Exists(f, homedir_path)
     THEN <<MoveFile(homedir_path, dotfiles_path)>>
     ELSE <<>>)
        \o <<CreateSymlink(homedir_path, dotfiles_path)>>

\* get_required_changes(config, dotfiles_root, home_dir, path) on filesystem f
get_required_changes(f, ms, root, home, p) ==
    IF ~is_in_dotfiles(root, p) /\ ~is_in_home_dir(root, home, p)
    THEN PlanResult(AddError("OutsideValidDir", p, NoPath), <<>>, <<>>, root, home, p)
    ELSE
        LET mp == mappings_path(root, home, p)
            homedir_path == Join(home, mp)
            dotfiles_path == Join(root, mp)
            step == MappingStep(ms, mp)
            nesting == IF Contains(ms, mp) THEN NoError ELSE NestingError(ms, mp)
        IN  IF nesting # NoError
            THEN PlanResult(nesting, <<>>, <<>>, root, home, p)
            ELSE IF Exists(f, homedir_path) /\ Exists(f, dotfiles_path)
            THEN IF IsLinkedTo(f, homedir_path, dotfiles_path)
                 THEN PlanResult(NoError, step.changes,
                                 Append(step.skipped, SkipLinked), root, home, p)
                 ELSE PlanResult(AddError("BothPathsExist", dotfiles_path, homedir_path),
                                 <<>>, <<>>, root, home, p)
            ELSE PlanResult(NoError,
                            step.changes \o MoveAndLink(f, homedir_path, dotfiles_path),
                            step.skipped, root, home, p)

(***************************************************************************)
(* commands/add.rs: run and apply_changes                                  *)
(***************************************************************************)
\* the location of the entry a path names: its directory part resolved, its
\* last component not followed; Missing when the directory does not exist
Locate(f, p) ==
    IF p = <<>> THEN <<>>
    ELSE LET dir == RealPath(f, Parent(p), MaxSymlinkHops)
         IN  IF dir = Missing \/ NodeAt(f, dir).kind # "dir" THEN Missing
             ELSE dir \o <<p[Len(p)]>>

\* the outcome of a filesystem operation: the filesystem after it, or a failure
\* that leaves the filesystem as it was
FsDone(f) == [ok |-> TRUE, fs |-> f]
FsFailed(f) == [ok |-> FALSE, fs |-> f]

\* the strict ancestors of p below "/"
AncestorDirs(p) == {SubSeq(p, 1, k) : k \in 1..(Len(p) - 1)}

\* dir::move_dir with copy_inside, for a destination that does not exist: the
\* entry at `from` and everything below it is relocated to `to`, the missing
\* directories above `to` are created
MoveDir(f, from, to) ==
    LET src == Locate(f, from)
        dir == Locate(f, to)
        dst == IF dir = Missing THEN to ELSE dir
        created == IF dir = Missing
                   THEN {a \in AncestorDirs(to) : a \notin DOMAIN f} ELSE {}
        moved == {q \in DOMAIN f : StartsWith(q, src)}
        kept == DOMAIN f \ moved
    IN  FsDone([q \in kept \cup created \cup {dst \o StripPrefix(m, src) : m \in moved} |->
                   IF q \in kept THEN f[q]
                   ELSE IF q \in created THEN DirNode
                   ELSE f[src \o StripPrefix(q, dst)]])

\* file::move_file: the content is copied to a new file at `to`, whose
\* directory has to exist, and the entry at `from` is removed
MoveRegularFile(f, from, to) ==
    LET src == Locate(f, from)
        dst == Locate(f, to)
    IN  IF dst = Missing THEN FsFailed(f)
        ELSE FsDone([q \in (DOMAIN f \ {src}) \cup {dst} |->
                        IF q = dst THEN FileNode ELSE f[q]])

\* the MoveFile arm of apply_changes
ApplyMove(f, from, to) ==
    IF ~Exists(f, from) \/ SymlinkMetadata(f, to).kind # "none" THEN FsFailed(f)
    ELSE IF IsDir(f, from) THEN MoveDir(f, from, to)
    ELSE MoveRegularFile(f, from, to)

\* files::create_symlink_for(from, to): a symlink at `from` whose stored target
\* is `to`; fails when something is at `from` or its directory does not exist
create_symlink_for(f, from, to) ==
    LET loc == Locate(f, from)
    IN  IF loc = Missing \/ NodeAt(f, loc).kind # "none" THEN FsFailed(f)
        ELSE FsDone([q \in DOMAIN f \cup {loc} |->
                        IF q = loc THEN SymlinkNode(to) ELSE f[q]])

\* config.add_mapping(path)
add_mapping(ms, p) == Append(ms, p)

\* the result of an add command that has not planned yet
NoPlan ==
    [ok |-> TRUE, error |-> NoError, changes |-> <<>>, skipped |-> <<>>,
     is_in_dotfiles |-> FALSE, is_in_home_dir |-> FALSE, mappings_path |-> NoPath]

\* the result of an add command that failed outside get_required_changes
Failure(r, kind, a) == [r EXCEPT !.ok = FALSE, !.error = AddError(kind, a, NoPath)]

\* add commands started in one behaviour
MaxAdds == 2

\* the positions at which a command has ended
Ended == {"done", "declined", "failed", "killed"}

\* a new add command is started with path argument p: AddCommandArgs::from_args
AddFromArgs(p) ==
    /\ pc \in Ended \cup {"idle"}
    /\ adds < MaxAdds
    /\ adds' = adds + 1
    /\ prev' = [pc |-> pc, path |-> path, plan |-> result, changes |-> changes]
    /\ path' = p
    /\ mappings' = <<>>
    /\ changes' = <<>>
    /\ skipped' = <<>>
    /\ IF Exists(fs, p)
       THEN pc' = "load" /\ result' = NoPlan
       ELSE pc' = "failed" /\ result' = Failure(NoPlan, "CliInvalidArgValue", p)
    /\ UNCHANGED <<fs, home_dir, dotfiles_root, config_file, entry, walkVars>>

\* AppConfig::from_config_file: read and validate the stored mappings
AddLoadConfig ==
    /\ pc = "load"
    /\ mappings' = config_file
    /\ IF validate_nested_mappings(config_file).ok
       THEN pc' = "plan" /\ UNCHANGED result
       ELSE pc' = "failed"
            /\ result' = Failure(NoPlan, "ConfigNestedLinks",
                                 validate_nested_mappings(config_file).nested)
    /\ UNCHANGED <<fs, home_dir, dotfiles_root, config_file, entry, walkVars, addVars>>

\* a version of AddPlan that goes on to apply an AddMapping when planning failed
AddPlanKeepsChanges ==
    /\ pc = "plan"
    /\ LET r == get_required_changes(fs, mappings, dotfiles_root, home_dir, path)
       IN  /\ result' = r
           /\ IF r.ok
              THEN changes' = r.changes /\ skipped' = r.skipped
                   /\ pc' = IF r.changes = <<>> THEN "done" ELSE "prompt"
              ELSE changes' = MappingStep(mappings, r.mappings_path).changes
                   /\ skipped' = <<>>
                   /\ pc' = "apply"
    /\ UNCHANGED <<fs, home_dir, dotfiles_root, mappings, config_file, entry,
                   walkVars, path, adds, prev>>

\* run: get_required_changes, then the error is returned, or the plan is shown
AddPlan ==
    /\ pc = "plan"
    /\ LET r == get_required_changes(fs, mappings, dotfiles_root, home_dir, path)
       IN  /\ result' = r
           /\ changes' = r.changes
           /\ skipped' = r.skipped
           /\ pc' = IF ~r.ok THEN "failed"
                    ELSE IF r.changes = <<>> THEN "done" ELSE "prompt"
    /\ UNCHANGED <<fs, home_dir, dotfiles_root, mappings, config_file, entry,
                   walkVars, path, adds, prev>>

\* the user answers the prompt with yes
AddConfirm ==
    /\ pc = "prompt"
    /\ pc' = "apply"
    /\ UNCHANGED <<fs, home_dir, dotfiles_root, mappings, config_file, entry,
                   walkVars, addVars, result>>

\* the user answers the prompt with no
AddDecline ==
    /\ pc = "prompt"
    /\ pc' = "declined"
    /\ UNCHANGED <<fs, home_dir, dotfiles_root, mappings, config_file, entry,
                   walkVars, addVars, result>>

\* a version of ApplyAddMapping that does not write the config file
ApplyAddMappingUnsaved ==
    /\ pc = "apply"
    /\ changes # <<>>
    /\ Head(changes).kind = "AddMapping"
    /\ mappings' = add_mapping(mappings, Head(changes).from)
    /\ changes' = Tail(changes)
    /\ UNCHANGED <<pc, fs, home_dir, dotfiles_root, config_file, entry, walkVars,
                   path, skipped, adds, prev, result>>

\* apply_changes, AddMapping: the mapping is added and the config file written
ApplyAddMapping ==
    /\ pc = "apply"
    /\ changes # <<>>
    /\ Head(changes).kind = "AddMapping"
    /\ mappings' = add_mapping(mappings, Head(changes).from)
    /\ config_file' = mappings'
    /\ changes' = Tail(changes)
    /\ UNCHANGED <<pc, fs, home_dir, dotfiles_root, entry, walkVars,
                   path, skipped, adds, prev, result>>

\* apply_changes, MoveFile
ApplyMoveFile ==
    /\ pc = "apply"
    /\ changes # <<>>
    /\ Head(changes).kind = "MoveFile"
    /\ LET r == ApplyMove(fs, Head(changes).from, Head(changes).to)
       IN  IF r.ok
           THEN fs' = r.fs /\ changes' = Tail(changes) /\ UNCHANGED <<pc, result>>
           ELSE pc' = "failed"
                /\ result' = Failure(result, "FsOther", Head(changes).from)
                /\ UNCHANGED <<fs, changes>>
    /\ UNCHANGED <<home_dir, dotfiles_root, mappings, config_file, entry, walkVars,
                   path, skipped, adds, prev>>

\* apply_changes, CreateSymlink
ApplyCreateSymlink ==
    /\ pc = "apply"
    /\ changes # <<>>
    /\ Head(changes).kind = "CreateSymlink"
    /\ LET r == create_symlink_for(fs, Head(changes).from, Head(changes).to)
       IN  IF r.ok
           THEN fs' = r.fs /\ changes' = Tail(changes) /\ UNCHANGED <<pc, result>>
           ELSE pc' = "failed"
                /\ result' = Failure(result, "FsOther", Head(changes).from)
                /\ UNCHANGED <<fs, changes>>
    /\ UNCHANGED <<home_dir, dotfiles_root, mappings, config_file, entry, walkVars,
                   path, skipped, adds, prev>>

\* apply_changes returns Ok after the last change
ApplyReturn ==
    /\ pc = "apply"
    /\ changes = <<>>
    /\ pc' = "done"
    /\ UNCHANGED <<fs, home_dir, dotfiles_root, mappings, config_file, entry,
                   walkVars, addVars, result>>

\* the process is terminated while apply_changes runs
Interrupt ==
    /\ pc = "apply"
    /\ pc' = "killed"
    /\ UNCHANGED <<fs, home_dir, dotfiles_root, mappings, config_file, entry,
                   walkVars, addVars, result>>

(***************************************************************************)
(* Values of the variables a specification does not use                    *)
(***************************************************************************)
NoFs == <<>>
NoEntry == [path |-> NoPath, state |-> "none"]
NoResult == [ok |-> TRUE]

IdleFs == fs = NoFs /\ home_dir = NoPath /\ dotfiles_root = NoPath
IdleWalk == queue = <<>> /\ dotfiles = <<>> /\ first_run = <<>>
IdleStatus == entry = NoEntry
NoPrev == [pc |-> "none", path |-> NoPath, plan |-> NoPlan, changes |-> <<>>]
IdleAdd == path = NoPath /\ changes = <<>> /\ skipped = <<>> /\ adds = 0 /\ prev = NoPrev

(***************************************************************************)
(* SpecValidate: validate_nested_mappings applied to every mapping list    *)
(***************************************************************************)
InitValidate ==
    /\ pc = "validate"
    /\ mappings \in SeqsUpTo(ValPaths, MaxLen)
    /\ result = NoResult
    /\ config_file = mappings
    /\ IdleFs /\ IdleWalk /\ IdleStatus /\ IdleAdd

ValidateNested ==
    /\ pc = "validate"
    /\ result' = validate_nested_mappings(mappings)
    /\ pc' = "validated"
    /\ UNCHANGED <<fs, home_dir, dotfiles_root, mappings, config_file, entry>>
    /\ UNCHANGED <<walkVars, addVars>>

NextValidate == ValidateNested

SpecValidate == InitValidate /\ [][NextValidate]_vars

(***************************************************************************)
(* SpecLoad: from_config_file applied to every config file whose stored    *)
(* paths are relative, start with "./" or are absolute                     *)
(***************************************************************************)
\* the paths a config file may store
StoredPaths ==
    {pre \o rel : pre \in {<<>>, <<CurDir>>, <<RootDir>>}, rel \in RelPaths \cup {<<>>}}

InitLoad ==
    /\ pc = "load"
    /\ config_file \in SeqsUpTo(StoredPaths, MaxLen)
    /\ mappings = <<>>
    /\ result = NoResult
    /\ IdleFs /\ IdleWalk /\ IdleStatus /\ IdleAdd

LoadConfigFile ==
    /\ pc = "load"
    /\ result' = from_config_file(config_file)
    /\ mappings' = result'.mappings
    /\ pc' = IF result'.ok THEN "loaded" ELSE "failed"
    /\ UNCHANGED <<fs, home_dir, dotfiles_root, config_file, entry>>
    /\ UNCHANGED <<walkVars, addVars>>

NextLoad == LoadConfigFile

SpecLoad == InitLoad /\ [][NextLoad]_vars

(***************************************************************************)
(* SpecMain: lib.rs run, commands/mod.rs run_command and main.rs main, for *)
(* every sub-command and every outcome of a command handler                *)
(***************************************************************************)
\* Result<(), AppError>
RunOk == [ok |-> TRUE, error |-> NoError]
RunErr(kind, a) == [ok |-> FALSE, error |-> AddError(kind, a, NoPath)]

\* the errors a command handler may return, each with a path it names
CommandErrors ==
    {RunErr(kind, a) :
        kind \in {"CliInvalidArgValue", "ConfigFileRead", "ConfigFileWrite", "ConfigParse",
                  "ConfigSerialize", "ConfigNestedLinks", "ConfigAbsoluteLink",
                  "FsUserLocation", "FsResolveConfig", "FsOther", "NotImplemented",
                  "OutsideValidDir", "BothPathsExist", "ExistingParent", "ExistingChild"},
        a \in RelPaths \cup {NoPath}}

\* run_command for a dotfiles root that is or is not a directory, a sub-command
\* name and the outcome of its handler
run_command(root_is_dir, cmd, outcome) ==
    IF ~root_is_dir THEN RunErr("CliInvalidArgValue", NoPath)
    ELSE IF cmd \in {"status", "add"} THEN outcome
    ELSE IF cmd = "" THEN RunErr("CliMissingCommand", NoPath)
    ELSE RunErr("CliInvalidCommand", NoPath)

\* main: an Err is printed to stderr; main returns in both cases, and a main that
\* returns ends the process with exit status 0
main(r) ==
    [run |-> r,
     stderr |-> IF r.ok THEN <<>> ELSE <<r.error>>,
     exit_code |-> 0]

InitMain ==
    /\ pc = "run"
    /\ result = NoResult
    /\ mappings = <<>>
    /\ config_file = <<>>
    /\ IdleFs /\ IdleWalk /\ IdleStatus /\ IdleAdd

RunCommand ==
    /\ pc = "run"
    /\ \E root_is_dir \in BOOLEAN, cmd \in {"status", "add", "", "stat"},
          outcome \in {RunOk} \cup CommandErrors :
           result' = run_command(root_is_dir, cmd, outcome)
    /\ pc' = "main"
    /\ UNCHANGED <<fs, home_dir, dotfiles_root, mappings, config_file, entry>>
    /\ UNCHANGED <<walkVars, addVars>>

Main ==
    /\ pc = "main"
    /\ result' = main(result)
    /\ pc' = "exited"
    /\ UNCHANGED <<fs, home_dir, dotfiles_root, mappings, config_file, entry>>
    /\ UNCHANGED <<walkVars, addVars>>

NextMain == RunCommand \/ Main

SpecMain == InitMain /\ [][NextMain]_vars

(***************************************************************************)
(* SpecWalk: get_dotfiles_entries, run twice, on every repository tree of  *)
(* depth two and every validated mapping list                              *)
(***************************************************************************)
Kinds == {"none", "file", "dir", "link"}

\* the kind of every relative path: a path exists only in a directory
Trees ==
    {t \in [RelPaths -> Kinds] :
        \A p \in RelPaths : Len(p) = 2 /\ t[p] # "none" => t[<<p[1]>>] = "dir"}

\* the target of the symlink at base/rel: a sibling for a symlink directly below
\* base, base itself (an ancestor) for a deeper one
LinkTarget(base, rel) ==
    IF Len(rel) = 1 THEN Join(base, <<CHOOSE n \in Names : n # rel[1]>>) ELSE base

\* the filesystem that holds the directories of `dirs` and tree t below base
TreeFs(dirs, base, t) ==
    LET present == {p \in RelPaths : t[p] # "none"}
    IN  [q \in dirs \cup {Join(base, p) : p \in present} |->
            IF q \in dirs THEN DirNode
            ELSE LET p == StripPrefix(q, base)
                 IN  IF t[p] = "file" THEN FileNode
                     ELSE IF t[p] = "dir" THEN DirNode
                     ELSE SymlinkNode(LinkTarget(base, p))]

\* the mapping lists from_config_file accepts; the empty path (stored as "" or
\* ".") is relative and is accepted when it is the only mapping
ValidMappings ==
    {ms \in SeqsUpTo(RelPaths \cup {NoPath}, MaxMappings) : validate_nested_mappings(ms).ok}

InitWalk ==
    /\ pc = "walk_seed"
    /\ home_dir = <<3>>
    /\ dotfiles_root = <<3, 4>>
    /\ \E t \in Trees : fs = TreeFs({<<3>>, <<3, 4>>}, <<3, 4>>, t)
    /\ mappings \in ValidMappings
    /\ config_file = mappings
    /\ result = NoResult
    /\ IdleWalk /\ IdleStatus /\ IdleAdd

NextWalk ==
    \/ WalkSeed
    \/ WalkMapped
    \/ WalkUnmapped
    \/ WalkTraverse
    \/ WalkSkip
    \/ WalkReturn
    \/ WalkAgain

SpecWalk == InitWalk /\ [][NextWalk]_vars

(***************************************************************************)
(* SpecWalkLinks: get_dotfiles_entries, run once to its end, on repository *)
(* trees with symlinks to a sibling directory and back to an ancestor      *)
(***************************************************************************)
\* where the symlink at the top of the repository points: the repository root
\* and the home directory (ancestors of the symlink), or the sibling directory
LinkTargets == {<<3, 4>>, <<3>>, <<3, 4, 2>>}

\* the repository /3/4: `1` is a symlink or a directory that may hold a symlink
\* back to the root; `2` is a directory that may hold a file or a symlink back
\* to the root, and a file
LinkTrees ==
    {[top |-> top, below1 |-> b1, below21 |-> b21, below22 |-> b22] :
        top \in {SymlinkNode(t) : t \in LinkTargets} \cup {DirNode},
        b1 \in {NoNode, SymlinkNode(<<3, 4>>)},
        b21 \in {NoNode, FileNode, SymlinkNode(<<3, 4>>)},
        b22 \in {NoNode, FileNode}}

LinkTreeFs(t) ==
    LET nodes == {<<3>>, <<3, 4>>, <<3, 4, 1>>, <<3, 4, 2>>}
                 \cup (IF t.top = DirNode /\ t.below1 # NoNode THEN {<<3, 4, 1, 1>>} ELSE {})
                 \cup (IF t.below21 # NoNode THEN {<<3, 4, 2, 1>>} ELSE {})
                 \cup (IF t.below22 # NoNode THEN {<<3, 4, 2, 2>>} ELSE {})
    IN  [q \in nodes |->
            IF q = <<3, 4, 1>> THEN t.top
            ELSE IF q = <<3, 4, 1, 1>> THEN t.below1
            ELSE IF q = <<3, 4, 2, 1>> THEN t.below21
            ELSE IF q = <<3, 4, 2, 2>> THEN t.below22
            ELSE DirNode]

InitWalkLinks ==
    /\ pc = "walk_seed"
    /\ home_dir = <<3>>
    /\ dotfiles_root = <<3, 4>>
    /\ \E t \in LinkTrees : (t.top = DirNode \/ t.below1 = NoNode) /\ fs = LinkTreeFs(t)
    /\ mappings \in ValidMappings
    /\ config_file = mappings
    /\ result = NoResult
    /\ IdleWalk /\ IdleStatus /\ IdleAdd

NextWalkLinks ==
    \/ WalkSeed
    \/ WalkMapped
    \/ WalkUnmapped
    \/ WalkTraverse
    \/ WalkSkip
    \/ WalkReturn

\* the loop runs on until the function returns
SpecWalkLinks == InitWalkLinks /\ [][NextWalkLinks]_vars /\ WF_vars(NextWalkLinks)

(***************************************************************************)
(* SpecClassify: get_dotfiles_entry_state applied to one entry, for every  *)
(* state of the entry's path below the two roots                           *)
(***************************************************************************)
\* where the home directory and the repository lie: the repository below the
\* home directory, or beside it
Layouts == {[home |-> <<3>>, root |-> <<3, 4>>], [home |-> <<3>>, root |-> <<4>>]}

\* paths outside both roots: a symlink, a file, and a path that does not exist
AuxLink == <<5>>
AuxFile == <<6>>
AuxMissing == <<7>>

\* what the repository holds at the entry's path
RepoStates == {"none", "file", "dir", "dangling"}

\* what the home directory holds at the entry's path: nothing, a file, a
\* directory, or a symlink to the repository path, to a symlink that leads to
\* the repository path, to another file, or to a path that does not exist
HomeStates == {"none", "file", "dir", "linked", "indirect", "other", "dangling"}

\* the filesystem with the two roots, the given state of rel below each root
\* (a directory holds one file, named 2), and the paths outside the roots
PairFs(home, root, rel, hs, rs) ==
    LET hp == Join(home, rel)
        rp == Join(root, rel)
        dirs == {home, root} \cup AncestorDirs(home) \cup AncestorDirs(root)
                    \cup (IF hs # "none" THEN AncestorDirs(hp) ELSE {})
                    \cup (IF rs # "none" THEN AncestorDirs(rp) ELSE {})
        nodes == {AuxLink, AuxFile}
                    \cup (IF hs # "none" THEN {hp} ELSE {})
                    \cup (IF rs # "none" THEN {rp} ELSE {})
                    \cup (IF hs = "dir" THEN {hp \o <<2>>} ELSE {})
                    \cup (IF rs = "dir" THEN {rp \o <<2>>} ELSE {})
    IN  [q \in (dirs \ {<<>>}) \cup nodes |->
            IF q \in dirs THEN DirNode
            ELSE IF q = rp /\ rs # "none"
                 THEN IF rs = "file" THEN FileNode
                      ELSE IF rs = "dir" THEN DirNode
                      ELSE SymlinkNode(AuxMissing)
            ELSE IF q = hp /\ hs # "none"
                 THEN IF hs = "file" THEN FileNode
                      ELSE IF hs = "dir" THEN DirNode
                      ELSE IF hs = "linked" THEN SymlinkNode(rp)
                      ELSE IF hs = "indirect" THEN SymlinkNode(AuxLink)
                      ELSE IF hs = "other" THEN SymlinkNode(AuxFile)
                      ELSE SymlinkNode(AuxMissing)
            ELSE IF q = AuxLink THEN SymlinkNode(rp)
            ELSE FileNode]

\* the entry states the walker can give a path the repository holds in state rs
EntryStates(rs) == IF rs = "none" THEN {"Invalid"} ELSE {"Mapped", "Unmapped"}

InitClassify ==
    /\ pc = "classify"
    /\ \E l \in Layouts, rel \in RelPaths, hs \in HomeStates, rs \in RepoStates :
           /\ home_dir = l.home
           /\ dotfiles_root = l.root
           /\ fs = PairFs(l.home, l.root, rel, hs, rs)
           /\ \E st \in EntryStates(rs) : entry = DotfilesEntry(rel, st)
           /\ mappings = IF entry.state = "Unmapped" THEN <<>> ELSE <<rel>>
    /\ config_file = mappings
    /\ result = NoResult
    /\ IdleWalk /\ IdleAdd

Classify ==
    /\ pc = "classify"
    /\ result' = get_dotfiles_entry_state(fs, dotfiles_root, entry, home_dir)
    /\ pc' = "classified"
    /\ UNCHANGED <<fs, home_dir, dotfiles_root, mappings, config_file, entry>>
    /\ UNCHANGED <<walkVars, addVars>>

NextClassify == Classify

SpecClassify == InitClassify /\ [][NextClassify]_vars

(***************************************************************************)
(* SpecPlan: get_required_changes applied to every path argument, existing *)
(* or not, for every state of one relative path below the two roots        *)
(***************************************************************************)
\* the layouts of SpecClassify, and the home directory below the repository
PlanLayouts == Layouts \cup {[home |-> <<4, 3>>, root |-> <<4>>]}

\* the relative paths whose state below the two roots is varied
AddRels == {<<1>>, <<1, 2>>}

\* the path arguments: the two roots, the paths below them, and two paths
\* outside both
Candidates(l) ==
    {Join(l.home, r) : r \in AddRels \cup {<<>>, <<2>>}}
        \cup {Join(l.root, r) : r \in AddRels \cup {<<>>, <<2>>}}
        \cup {AuxFile, AuxMissing}

\* the mappings of the config file the add commands start from: the paths whose
\* state is varied, a sibling, and an unrelated path
AddMappings ==
    {ms \in SeqsUpTo(AddRels \cup {<<1, 1>>, <<2>>}, MaxMappings) :
        validate_nested_mappings(ms).ok}

InitPlan ==
    /\ pc = "plan"
    /\ \E l \in PlanLayouts, rel \in AddRels, hs \in HomeStates, rs \in RepoStates :
           /\ home_dir = l.home
           /\ dotfiles_root = l.root
           /\ fs = PairFs(l.home, l.root, rel, hs, rs)
           /\ path \in Candidates(l)
    /\ mappings \in AddMappings
    /\ config_file = mappings
    /\ changes = <<>> /\ skipped = <<>> /\ adds = 1 /\ prev = NoPrev
    /\ result = NoPlan
    /\ IdleWalk /\ IdleStatus

NextPlan == AddPlan

SpecPlan == InitPlan /\ [][NextPlan]_vars

(***************************************************************************)
(* SpecAdd: add commands, one after the other, each with any path          *)
(* argument, confirmed or declined at the prompt, and interrupted at any   *)
(* point of apply_changes                                                  *)
(***************************************************************************)
\* the states of the repository path and of the home path the add commands
\* start from
AddRepoStates == {"none", "file", "dir"}
AddHomeStates == {"none", "file", "dir", "linked", "other", "dangling"}

\* the path arguments of the add commands: the paths whose state is varied,
\* below each root, the home directory, and a file outside both roots
AddCandidates ==
    {Join(home_dir, r) : r \in AddRels \cup {<<>>}}
        \cup {Join(dotfiles_root, r) : r \in AddRels}
        \cup {AuxFile}

InitAdd ==
    /\ pc = "idle"
    /\ \E l \in Layouts, rel \in AddRels, hs \in AddHomeStates, rs \in AddRepoStates :
           /\ home_dir = l.home
           /\ dotfiles_root = l.root
           /\ fs = PairFs(l.home, l.root, rel, hs, rs)
    /\ config_file \in AddMappings
    /\ mappings = <<>>
    /\ result = NoPlan
    /\ IdleWalk /\ IdleStatus /\ IdleAdd

NextAdd ==
    \/ \E p \in AddCandidates : AddFromArgs(p)
    \/ AddLoadConfig
    \/ AddPlan
    \/ AddConfirm
    \/ AddDecline
    \/ ApplyAddMapping
    \/ ApplyMoveFile
    \/ ApplyCreateSymlink
    \/ ApplyReturn
    \/ Interrupt

SpecAdd == InitAdd /\ [][NextAdd]_vars

(***************************************************************************)
(* SpecAddStatus: add commands as in SpecAdd, and a status command run     *)
(* before the first add command or after an add command has ended          *)
(***************************************************************************)
\* status::run, AppConfig::from_config_file: read and validate the stored
\* mappings
StatusLoadConfig ==
    /\ pc \in Ended \cup {"idle"}
    /\ mappings' = config_file
    /\ pc' = IF validate_nested_mappings(config_file).ok THEN "walk_seed" ELSE "failed"
    /\ UNCHANGED <<fs, home_dir, dotfiles_root, config_file, entry, walkVars,
                   addVars, result>>

\* the position in dotfile_entries of the entry the loop of status::run takes
\* next
NextEntryIndex ==
    IF pc = "walked" THEN 1
    ELSE 1 + CHOOSE k \in 1..Len(dotfiles) : dotfiles[k] = entry

\* status::run, one iteration of `for entry in &dotfile_entries`: the line
\* printed for entry shows get_dotfiles_entry_state of it
StatusEntry ==
    /\ pc \in {"walked", "status"}
    /\ NextEntryIndex <= Len(dotfiles)
    /\ entry' = dotfiles[NextEntryIndex]
    /\ pc' = "status"
    /\ UNCHANGED <<fs, home_dir, dotfiles_root, mappings, config_file, walkVars,
                   addVars, result>>

\* status::run returns Ok after the last entry
StatusReturn ==
    /\ pc \in {"walked", "status"}
    /\ NextEntryIndex > Len(dotfiles)
    /\ pc' = "reported"
    /\ UNCHANGED <<fs, home_dir, dotfiles_root, mappings, config_file, entry,
                   walkVars, addVars, result>>

NextAddStatus ==
    \/ NextAdd
    \/ StatusLoadConfig
    \/ WalkSeed
    \/ WalkMapped
    \/ WalkUnmapped
    \/ WalkTraverse
    \/ WalkSkip
    \/ WalkReturn
    \/ StatusEntry
    \/ StatusReturn

SpecAddStatus == InitAdd /\ [][NextAddStatus]_vars

(***************************************************************************)
(* Claims about validate_nested_mappings                                   *)
(***************************************************************************)
\* some element of the list is a component-wise prefix of another element
HasNestedPair(ms) ==
    \E i \in 1..Len(ms) : \E j \in 1..Len(ms) : i # j /\ StartsWith(ms[j], ms[i])

\* the lists that hold the elements of ms in another order
Reorderings(ms) ==
    {[i \in 1..Len(ms) |-> ms[f[i]]] :
        f \in {g \in [1..Len(ms) -> 1..Len(ms)] :
                  \A i \in 1..Len(ms) : \A j \in 1..Len(ms) : g[i] = g[j] => i = j}}

\* C1: validate_nested_mappings succeeds exactly when no element of the list is a
\* component-wise prefix of another element; when it fails, the reported pair
\* (nested, parent) are two entries of the list with parent a prefix of nested;
\* and every permutation of the list gets the same answer.
C1_ValidateAgreesWithAllPairs ==
    pc = "validated" =>
        /\ result.ok <=> ~HasNestedPair(mappings)
        /\ ~result.ok =>
              \E i \in 1..Len(mappings) : \E j \in 1..Len(mappings) :
                  /\ i # j
                  /\ mappings[i] = result.parent
                  /\ mappings[j] = result.nested
                  /\ StartsWith(result.nested, result.parent)
        /\ \A q \in Reorderings(mappings) : validate_nested_mappings(q) = result

\* a rejected list whose nested pair is not adjacent in the order of insertion
C1_Witness ==
    /\ pc = "validated"
    /\ ~result.ok
    /\ Len(mappings) = 3
    /\ result.nested = mappings[1]
    /\ result.parent = mappings[3]
    /\ result.nested # result.parent
    /\ ~StartsWith(mappings[2], mappings[3])
    /\ ~StartsWith(mappings[1], mappings[2])

(***************************************************************************)
(* Claims about get_dotfiles_entries                                       *)
(***************************************************************************)
\* p is below d and is not d
StrictlyBelow(p, d) == StartsWith(p, d) /\ p # d

\* the relative path p names an entry of the repository that is reached from the
\* root through real directories only
InRepository(p) ==
    /\ p # <<>>
    /\ \A k \in 1..Len(p) :
           LET n == NodeAt(fs, Join(dotfiles_root, SubSeq(p, 1, k)))
           IN  n.kind # "none" /\ (k < Len(p) => n.kind = "dir")

\* the positions of the entries with path p
EntriesAt(p) == {k \in 1..Len(dotfiles) : dotfiles[k].path = p}

\* C2: for a validated mapping list, a mapping that is a directory D of the
\* repository is emitted once, as Mapped; the children of D are never in the
\* queue; and no entry of any state has a path strictly below D.
C2_Pruning ==
    \A i \in 1..Len(mappings) :
        LET D == mappings[i]
        IN  (InRepository(D) /\ NodeAt(fs, Join(dotfiles_root, D)).kind = "dir") =>
                /\ \A k \in 1..Len(queue) :
                       ~StrictlyBelow(StripPrefix(queue[k], dotfiles_root), D)
                /\ \A k \in 1..Len(dotfiles) : ~StrictlyBelow(dotfiles[k].path, D)
                /\ Cardinality(EntriesAt(D)) <= 1
                /\ pc = "walked" =>
                       \E k \in 1..Len(dotfiles) : dotfiles[k] = DotfilesEntry(D, "Mapped")

\* a finished walk over a mapped directory that has children
C2_Witness ==
    /\ pc = "walked"
    /\ \E i \in 1..Len(mappings) :
           /\ NodeAt(fs, Join(dotfiles_root, mappings[i])).kind = "dir"
           /\ ReadDir(fs, Join(dotfiles_root, mappings[i])) # {}
           /\ \E k \in 1..Len(dotfiles) :
                  dotfiles[k] = DotfilesEntry(mappings[i], "Mapped")

\* C3: every mapping the walk does not find in the repository has exactly one
\* entry in the result, with state Invalid, and the result is sorted ascending
\* by path.
C3_InvalidSynthesis ==
    pc = "walked" =>
        /\ \A i \in 1..Len(mappings) :
               ~InRepository(mappings[i]) =>
                   /\ Cardinality(EntriesAt(mappings[i])) = 1
                   /\ \E k \in 1..Len(dotfiles) :
                          dotfiles[k] = DotfilesEntry(mappings[i], "Invalid")
        /\ \A k \in 1..(Len(dotfiles) - 1) :
               ~PathLess(dotfiles[k + 1].path, dotfiles[k].path)

\* an Invalid entry inserted between two discovered entries
C3_Witness ==
    /\ pc = "walked"
    /\ \E k \in 2..(Len(dotfiles) - 1) :
           /\ dotfiles[k].state = "Invalid"
           /\ dotfiles[k - 1].state # "Invalid"
           /\ dotfiles[k + 1].state # "Invalid"

\* C4: the second run of the walker on the unchanged filesystem and mappings
\* returns the list the first run returned, whatever orders read_dir yielded.
C4_WalkerDeterminism ==
    (pc = "walked" /\ first_run # <<>>) => dotfiles = first_run[1]

\* two finished runs over a tree with a traversed directory of two children and
\* an Invalid mapping
C4_Witness ==
    /\ pc = "walked"
    /\ first_run # <<>>
    /\ \E k \in 1..Len(dotfiles) : dotfiles[k].state = "Invalid"
    /\ \E j, k \in 1..Len(dotfiles) :
           /\ j # k
           /\ Len(dotfiles[j].path) = 2
           /\ Len(dotfiles[k].path) = 2
           /\ dotfiles[j].path[1] = dotfiles[k].path[1]
           /\ dotfiles[j].state # "Invalid"
           /\ dotfiles[k].state # "Invalid"

(***************************************************************************)
(* Claims about get_dotfiles_entry_state                                   *)
(***************************************************************************)
\* what symlink_metadata reports for the entry's path below the home directory
HomeNode == SymlinkMetadata(fs, Join(home_dir, entry.path))

\* C5: the decision table.  Invalid and Unmapped entries are translated without
\* a look at the home directory; a Mapped entry is Unlinked when nothing is at
\* the home path, ConflictNoLink(home path) when a file or directory is there,
\* and Linked exactly when a symlink is there whose stored target is the
\* repository path.
C5_DecisionTable ==
    pc = "classified" =>
        /\ entry.state = "Invalid" =>
               result = LinkState("Invalid", Join(dotfiles_root, entry.path))
        /\ entry.state = "Unmapped" => result = LinkState("Unmapped", NoPath)
        /\ entry.state = "Mapped" =>
               /\ HomeNode.kind = "none" => result = LinkState("Unlinked", NoPath)
               /\ HomeNode.kind \in {"file", "dir"} =>
                      result = LinkState("ConflictNoLink", Join(home_dir, entry.path))
               /\ result = LinkState("Linked", NoPath) <=>
                      (HomeNode.kind = "link"
                          /\ HomeNode.target = Join(dotfiles_root, entry.path))

(***************************************************************************)
(* Claims about get_required_changes                                       *)
(***************************************************************************)
\* the two absolute paths of the planned path argument
HomedirPath == Join(home_dir, result.mappings_path)
DotfilesPath == Join(dotfiles_root, result.mappings_path)

\* get_required_changes has returned
Planned == pc \notin {"idle", "load", "plan"} /\ result.error.kind # "CliInvalidArgValue"

\* get_required_changes has got as far as its last step
Reconciled ==
    /\ Planned
    /\ result.error.kind \notin {"OutsideValidDir", "ExistingParent", "ExistingChild"}

\* the kinds of a list of changes
ChangeKinds(chs) == [i \in 1..Len(chs) |-> chs[i].kind]

HasKind(chs, k) == \E i \in 1..Len(chs) : chs[i].kind = k

\* C6: the last step of get_required_changes.  Both paths exist and the home
\* path is a symlink to the repository path: no MoveFile or CreateSymlink, the
\* step is skipped.  Both exist otherwise: BothPathsExist.  Only the home path
\* exists: MoveFile immediately followed by CreateSymlink.  The home path does
\* not exist: CreateSymlink and no MoveFile.  MoveFile is always before
\* CreateSymlink.
C6_Reconciliation ==
    Reconciled =>
        LET h == Exists(fs, HomedirPath)
            r == Exists(fs, DotfilesPath)
            chs == result.changes
        IN  /\ (h /\ r /\ IsLinkedTo(fs, HomedirPath, DotfilesPath)) =>
                   /\ result.ok
                   /\ ~HasKind(chs, "MoveFile")
                   /\ ~HasKind(chs, "CreateSymlink")
                   /\ \E i \in 1..Len(result.skipped) : result.skipped[i] = SkipLinked
            /\ (h /\ r /\ ~IsLinkedTo(fs, HomedirPath, DotfilesPath)) =>
                   /\ ~result.ok
                   /\ result.error.kind = "BothPathsExist"
                   /\ chs = <<>>
            /\ (h /\ ~r) =>
                   /\ result.ok
                   /\ Len(chs) >= 2
                   /\ chs[Len(chs) - 1] = MoveFile(HomedirPath, DotfilesPath)
                   /\ chs[Len(chs)] = CreateSymlink(HomedirPath, DotfilesPath)
            /\ ~h =>
                   /\ result.ok
                   /\ ~HasKind(chs, "MoveFile")
                   /\ chs # <<>>
                   /\ chs[Len(chs)] = CreateSymlink(HomedirPath, DotfilesPath)
            /\ \A i, j \in 1..Len(chs) :
                   chs[i].kind = "MoveFile" /\ chs[j].kind = "CreateSymlink" => i < j

\* a plan for a path that exists below the home directory only
C6_Witness ==
    /\ pc = "prompt"
    /\ Exists(fs, HomedirPath)
    /\ ~Exists(fs, DotfilesPath)
    /\ HasKind(result.changes, "MoveFile")
    /\ HasKind(result.changes, "CreateSymlink")

\* C10: a path below the repository root is classified as inside the repository
\* and its mapping path is what is left after the repository root, also when
\* the repository lies below the home directory; a path below the home
\* directory and not below the repository root is stripped of the home
\* directory; a path below neither fails with OutsideValidDir; no path is
\* classified under both roots.
C10_RootClassification ==
    Planned =>
        /\ StartsWith(path, dotfiles_root) =>
               /\ result.is_in_dotfiles
               /\ result.error.kind # "OutsideValidDir"
               /\ result.mappings_path = StripPrefix(path, dotfiles_root)
        /\ (StartsWith(path, home_dir) /\ ~StartsWith(path, dotfiles_root)) =>
               /\ result.is_in_home_dir
               /\ result.error.kind # "OutsideValidDir"
               /\ result.mappings_path = StripPrefix(path, home_dir)
        /\ (~StartsWith(path, home_dir) /\ ~StartsWith(path, dotfiles_root)) =>
               /\ ~result.ok
               /\ result.error = AddError("OutsideValidDir", path, NoPath)
        /\ ~(result.is_in_dotfiles /\ result.is_in_home_dir)
        /\ \A i \in 1..Len(result.changes) :
               LET c == result.changes[i]
                   mp == IF StartsWith(path, dotfiles_root)
                         THEN StripPrefix(path, dotfiles_root)
                         ELSE StripPrefix(path, home_dir)
               IN  IF c.kind = "AddMapping" THEN c.from = mp
                   ELSE c.from = Join(home_dir, mp) /\ c.to = Join(dotfiles_root, mp)

\* a plan for a path below a repository that lies below the home directory
C10_Witness ==
    /\ pc = "prompt"
    /\ StartsWith(dotfiles_root, home_dir)
    /\ StartsWith(path, dotfiles_root)
    /\ path # dotfiles_root
    /\ result.is_in_dotfiles
    /\ HasKind(result.changes, "AddMapping")
    /\ HasKind(result.changes, "CreateSymlink")

(***************************************************************************)
(* Claims about the add command                                            *)
(***************************************************************************)
\* the path argument exists below the home directory only, is not mapped and
\* nests with no mapping
OnlyInHomeAndUnmapped ==
    LET mp == mappings_path(dotfiles_root, home_dir, path)
    IN  /\ is_in_home_dir(dotfiles_root, home_dir, path)
        /\ Exists(fs, path)
        /\ ~Exists(fs, Join(dotfiles_root, mp))
        /\ ~Contains(mappings, mp)
        /\ NestingError(mappings, mp) = NoError

\* the previous command planned [AddMapping, MoveFile, CreateSymlink] and
\* apply_changes returned Ok
PrevAppliedFullPlan ==
    /\ prev.pc = "done"
    /\ prev.plan.ok
    /\ ChangeKinds(prev.plan.changes) = <<"AddMapping", "MoveFile", "CreateSymlink">>
    /\ prev.changes = <<>>

\* C7: for a path that exists below the home directory only and is not mapped,
\* the plan is exactly [AddMapping, MoveFile, CreateSymlink]; once that plan has
\* been applied to the end, an add command with the same path plans no change
\* and reports both steps as skipped.
C7_PlanAndIdempotence ==
    /\ (Planned /\ OnlyInHomeAndUnmapped) =>
           /\ result.ok
           /\ result.changes =
                  <<AddMapping(result.mappings_path),
                    MoveFile(HomedirPath, DotfilesPath),
                    CreateSymlink(HomedirPath, DotfilesPath)>>
    /\ (PrevAppliedFullPlan /\ path = prev.path /\ pc # "idle") =>
           /\ pc # "failed"
           /\ pc \notin {"load", "plan"} =>
                  /\ pc = "done"
                  /\ result.ok
                  /\ result.changes = <<>>
                  /\ result.skipped = <<SkipMapped, SkipLinked>>

\* the add command run again after its full plan was applied
C7_Witness ==
    /\ PrevAppliedFullPlan
    /\ path = prev.path
    /\ pc = "done"
    /\ result.changes = <<>>
    /\ result.skipped = <<SkipMapped, SkipLinked>>

\* C8: when get_required_changes fails, it yields no changes, the command ends,
\* and neither that step nor any later step of the command changes the
\* mappings in memory, the config file or the filesystem; a path that exists
\* below both roots, not linked, fails with BothPathsExist also when it is not
\* mapped yet.
C8_NoMutationOnPlanningError ==
    [][/\ (pc = "plan"
              /\ ~get_required_changes(fs, mappings, dotfiles_root, home_dir, path).ok) =>
              /\ pc' = "failed"
              /\ result'.error.kind \in
                     {"OutsideValidDir", "ExistingParent", "ExistingChild", "BothPathsExist"}
              /\ result'.changes = <<>>
              /\ changes' = <<>>
              /\ UNCHANGED <<fs, mappings, config_file>>
       /\ (pc = "plan"
              /\ LET mp == mappings_path(dotfiles_root, home_dir, path)
                 IN  /\ is_in_dotfiles(dotfiles_root, path)
                         \/ is_in_home_dir(dotfiles_root, home_dir, path)
                     /\ ~Contains(mappings, mp)
                     /\ NestingError(mappings, mp) = NoError
                     /\ Exists(fs, Join(home_dir, mp))
                     /\ Exists(fs, Join(dotfiles_root, mp))
                     /\ ~IsLinkedTo(fs, Join(home_dir, mp), Join(dotfiles_root, mp))) =>
              /\ result'.error.kind = "BothPathsExist"
              /\ changes' = <<>>
       /\ pc = "failed" => UNCHANGED <<fs, config_file>>
      ]_vars

\* a path that is a file below both roots and not mapped: BothPathsExist
C8_Witness ==
    /\ pc = "failed"
    /\ result.error.kind = "BothPathsExist"
    /\ ~Contains(mappings, result.mappings_path)
    /\ SymlinkMetadata(fs, HomedirPath).kind = "file"
    /\ SymlinkMetadata(fs, DotfilesPath).kind = "file"
    /\ changes = <<>>

\* the AddMapping change of a plan, as a set (empty when the plan has none)
PlannedMappings(plan) ==
    {plan.changes[i].from : i \in {j \in 1..Len(plan.changes) :
                                       plan.changes[j].kind = "AddMapping"}}

\* in every state, an AddMapping that was planned and is no longer to be applied
\* has been written to the config file, and as long as it is still to be
\* applied no other change has been applied
MappingWrittenFirst ==
    /\ (~HasKind(changes, "AddMapping")) =>
           \A m \in PlannedMappings(result) : Contains(config_file, m)
    /\ (pc \in {"apply", "killed"} /\ HasKind(changes, "AddMapping")) =>
           changes = result.changes

\* the previous command was interrupted after its AddMapping step
PrevKilledAfterAddMapping ==
    /\ prev.pc = "killed"
    /\ PlannedMappings(prev.plan) # {}
    /\ ~HasKind(prev.changes, "AddMapping")

\* the command has planned: the mapping was found, no AddMapping is planned
PlannedWithoutAddMapping ==
    /\ result.error.kind \in {"none", "FsOther"}
    /\ ~HasKind(result.changes, "AddMapping")
    /\ \E i \in 1..Len(result.skipped) : result.skipped[i] = SkipMapped

\* C9: the config file with the new mapping is written before any MoveFile or
\* CreateSymlink starts, and after an interruption at any point after the
\* AddMapping step an add command with the same path gets as far as planning,
\* finds the mapping and plans no AddMapping.
C9_MappingFirstAndRerun ==
    /\ MappingWrittenFirst
    /\ (PrevKilledAfterAddMapping /\ path = prev.path /\ pc # "idle") =>
           /\ pc # "failed" \/ result.error.kind = "FsOther"
           /\ pc \notin {"load", "plan"} => PlannedWithoutAddMapping

\* The part of the rerun property that the code provides: the reruns whose path
\* argument from_args accepts.  After an interruption between MoveFile and
\* CreateSymlink the home path is gone and from_args rejects it.
C9_MappingFirstAndRerunIfPathExists ==
    /\ MappingWrittenFirst
    /\ (PrevKilledAfterAddMapping /\ path = prev.path /\ pc # "idle"
            /\ result.error.kind # "CliInvalidArgValue") =>
           /\ pc # "failed" \/ result.error.kind = "FsOther"
           /\ pc \notin {"load", "plan"} => PlannedWithoutAddMapping

\* the rerun after an interruption between AddMapping and MoveFile has planned
RerunPlannedAfterKill ==
    /\ PrevKilledAfterAddMapping
    /\ ChangeKinds(prev.changes) = <<"MoveFile", "CreateSymlink">>
    /\ path = prev.path
    /\ pc = "prompt"
    /\ PlannedWithoutAddMapping
    /\ ChangeKinds(result.changes) = <<"MoveFile", "CreateSymlink">>

(***************************************************************************)
(* Claims about the nesting errors of add                                  *)
(***************************************************************************)
\* the mappings below the planned mapping path, and those above it
MappingsBelow(ms, mp) == {i \in 1..Len(ms) : StartsWith(ms[i], mp)}
MappingsAbove(ms, mp) == {i \in 1..Len(ms) : StartsWith(mp, ms[i])}

\* the path argument is below one of the two roots and is not mapped
PlannedUnmapped ==
    /\ Planned
    /\ result.error.kind # "OutsideValidDir"
    /\ ~Contains(mappings, result.mappings_path)

\* C11: when the mapping path of the path argument is an ancestor of a mapping,
\* get_required_changes fails with ExistingChild; when a mapping is an ancestor
\* of the mapping path, it fails with ExistingParent; the error carries the
\* mapping path and the conflicting mapping, and no change is returned.
C11_NestingErrorKinds ==
    PlannedUnmapped =>
        LET mp == result.mappings_path
        IN  /\ MappingsBelow(mappings, mp) # {} =>
                   /\ result.error.kind = "ExistingChild"
                   /\ result.error.a = mp
                   /\ \E i \in MappingsBelow(mappings, mp) : result.error.b = mappings[i]
                   /\ result.changes = <<>>
            /\ MappingsAbove(mappings, mp) # {} =>
                   /\ result.error.kind = "ExistingParent"
                   /\ result.error.a = mp
                   /\ \E i \in MappingsAbove(mappings, mp) : result.error.b = mappings[i]
                   /\ result.changes = <<>>

(***************************************************************************)
(* Claims about the mapping set                                            *)
(***************************************************************************)
\* C12: from a config file that from_config_file accepts, after any sequence of
\* add commands, applied or rejected, the mappings in memory and the mappings
\* in the config file hold no path twice and no path that is a prefix of
\* another.
C12_NoNestedMappings ==
    /\ ~HasNestedPair(mappings)
    /\ ~HasNestedPair(config_file)

\* an add command has added a mapping to a config file that held one already
C12_Witness ==
    /\ pc = "done"
    /\ HasKind(result.changes, "AddMapping")
    /\ Len(config_file) >= 2
    /\ config_file = mappings

(***************************************************************************)
(* Claims about from_config_file                                           *)
(***************************************************************************)
\* a stored path without its leading "./"
WithoutCurDir(p) == IF p # <<>> /\ p[1] = CurDir THEN Tail(p) ELSE p

\* the stored paths of the config file, each without its leading "./"
StoredWithoutCurDir == [i \in 1..Len(config_file) |-> WithoutCurDir(config_file[i])]

HasAbsolute(ms) == \E i \in 1..Len(ms) : ms[i] # <<>> /\ ms[i][1] = RootDir

\* C13: a config that from_config_file returns holds the stored paths without
\* their leading "./", all relative and none a prefix of another; a file with
\* an absolute path fails with ConfigAbsoluteLink; a file without one whose
\* paths nest once the leading "./" is removed ("./a" with "a/b", "./a" with
\* "a") fails with ConfigNestedLinks.
C13_LoadValidation ==
    pc \in {"loaded", "failed"} =>
        /\ pc = "loaded" =>
               /\ result.ok
               /\ mappings = StoredWithoutCurDir
               /\ \A i \in 1..Len(mappings) :
                      mappings[i] = <<>> \/ mappings[i][1] \notin {CurDir, RootDir}
               /\ ~HasNestedPair(mappings)
        /\ HasAbsolute(config_file) =>
               /\ pc = "failed"
               /\ result.error.kind = "ConfigAbsoluteLink"
               /\ \E i \in 1..Len(config_file) :
                      result.error.a = config_file[i] /\ config_file[i][1] = RootDir
        /\ (~HasAbsolute(config_file) /\ HasNestedPair(StoredWithoutCurDir)) =>
               /\ pc = "failed"
               /\ result.error.kind = "ConfigNestedLinks"
               /\ StartsWith(result.error.a, result.error.b)

\* the file with "./1" and "1/2" has been rejected
C13_Witness ==
    /\ pc = "failed"
    /\ config_file = << <<CurDir, 1>>, <<1, 2>> >>
    /\ result.error = [kind |-> "ConfigNestedLinks", a |-> <<1, 2>>, b |-> <<1>>]

(***************************************************************************)
(* Claims about main                                                       *)
(***************************************************************************)
\* C14: when run returns Ok the process ends with exit status 0 and prints no
\* error; when run returns an AppError the process prints the error and ends
\* with an exit status that is not 0.
C14_ExitStatus ==
    pc = "exited" =>
        /\ result.run.ok => result.exit_code = 0 /\ result.stderr = <<>>
        /\ ~result.run.ok =>
               /\ result.stderr = <<result.run.error>>
               /\ result.exit_code # 0

(***************************************************************************)
(* Claims about the states of the entries                                  *)
(***************************************************************************)
\* C15: a mapping is reported as Invalid only when its path does not exist in
\* the repository; every mapping whose path below the repository root exists
\* is reported as Mapped and not as Invalid.
C15_InvalidMeansMissing ==
    pc = "walked" =>
        \A i \in 1..Len(mappings) :
            LET m == mappings[i]
                present == Exists(fs, Join(dotfiles_root, m))
            IN  /\ (\E k \in 1..Len(dotfiles) : dotfiles[k] = DotfilesEntry(m, "Invalid"))
                       => ~present
                /\ present =>
                       /\ \E k \in 1..Len(dotfiles) : dotfiles[k] = DotfilesEntry(m, "Mapped")
                       /\ \A k \in 1..Len(dotfiles) : dotfiles[k] # DotfilesEntry(m, "Invalid")

(***************************************************************************)
(* Claims about the loop of get_dotfiles_entries                           *)
(***************************************************************************)
\* the elements of a sequence
Range(q) == {q[i] : i \in 1..Len(q)}

\* one iteration of the loop, for the popped path p: p is a mapping, or no
\* mapping is p or below p, or p is a strict ancestor of a mapping
IterationCases ==
    (pc = "walk" /\ queue # <<>>) =>
        LET head == Head(queue)
            p == StripPrefix(head, dotfiles_root)
            is_mapping == \E i \in 1..Len(mappings) : mappings[i] = p
            above_mapping == \E i \in 1..Len(mappings) : StrictlyBelow(mappings[i], p)
            children == {Join(head, <<n>>) : n \in {m \in Names : Join(head, <<m>>) \in DOMAIN fs}}
        IN  /\ pc' = "walk"
            /\ is_mapping =>
                   /\ dotfiles' = Append(dotfiles, DotfilesEntry(p, "Mapped"))
                   /\ queue' = Tail(queue)
            /\ (~is_mapping /\ ~above_mapping) =>
                   /\ dotfiles' = Append(dotfiles, DotfilesEntry(p, "Unmapped"))
                   /\ queue' = Tail(queue)
            /\ (~is_mapping /\ above_mapping) =>
                   /\ dotfiles' = dotfiles
                   /\ IF head \in DOMAIN fs /\ fs[head].kind = "dir"
                      THEN /\ Len(queue') = Len(queue) - 1 + Cardinality(children)
                           /\ SubSeq(queue', 1, Len(queue) - 1) = Tail(queue)
                           /\ Range(SubSeq(queue', Len(queue), Len(queue'))) = children
                      ELSE queue' = Tail(queue)

\* every Unmapped entry is a child of the repository root or of a strict
\* ancestor of a mapping
UnmappedBelowTraversed ==
    \A k \in 1..Len(dotfiles) :
        dotfiles[k].state = "Unmapped" =>
            \/ Len(dotfiles[k].path) = 1
            \/ \E i \in 1..Len(mappings) :
                   StrictlyBelow(mappings[i], Parent(dotfiles[k].path))

\* no mapping and nothing in the repository: the result is empty
EmptyGivesEmpty ==
    (pc = "walked" /\ mappings = <<>> /\ ReadDir(fs, dotfiles_root) = {}) => dotfiles = <<>>

\* C16: for every path popped from the queue exactly one case applies: it is a
\* mapping and is emitted as Mapped, its children not enqueued; or no mapping
\* is it or below it and it is emitted as Unmapped, its children not enqueued;
\* or it is a strict ancestor of a mapping, is not emitted, and its children
\* are enqueued only if it is a real directory.  Hence every Unmapped entry is
\* a child of the repository root or of a strict ancestor of a mapping, and an
\* empty mapping list with an empty repository gives an empty result.
C16_WalkerCases ==
    /\ [][IterationCases]_vars
    /\ [](UnmappedBelowTraversed /\ EmptyGivesEmpty)

\* an Unmapped entry found in a traversed directory, next to a Mapped one
C16_Witness ==
    /\ pc = "walked"
    /\ \E k \in 1..Len(dotfiles) :
           dotfiles[k].state = "Unmapped" /\ Len(dotfiles[k].path) = 2
    /\ \E k \in 1..Len(dotfiles) :
           dotfiles[k].state = "Mapped" /\ Len(dotfiles[k].path) = 2

(***************************************************************************)
(* Claims about symlinks with another target                               *)
(***************************************************************************)
\* C17: for a Mapped entry whose home path is a symlink with a stored target
\* other than the repository path, get_dotfiles_entry_state returns
\* ConflictWrongTarget with the stored target, whether or not the target
\* exists; a home path that is a symlink is never Unlinked or ConflictNoLink.
C17_WrongTargetIsConflict ==
    (pc = "classified" /\ entry.state = "Mapped" /\ HomeNode.kind = "link") =>
        /\ HomeNode.target # Join(dotfiles_root, entry.path) =>
               result = LinkState("ConflictWrongTarget", HomeNode.target)
        /\ result.state \notin {"Unlinked", "ConflictNoLink"}

(***************************************************************************)
(* Claims about symlinks in the repository                                 *)
(***************************************************************************)
\* every path in the queue and every entry found is reached from the repository
\* root through real directories only
ReachedThroughDirectories ==
    /\ \A k \in 1..Len(queue) : InRepository(StripPrefix(queue[k], dotfiles_root))
    /\ \A k \in 1..Len(dotfiles) :
           dotfiles[k].state # "Invalid" => InRepository(dotfiles[k].path)

\* an iteration that enqueues has popped a path that is itself a directory
EnqueuesOnlyDirectories ==
    (pc = "walk" /\ queue # <<>> /\ Len(queue') >= Len(queue)) =>
        NodeAt(fs, Head(queue)).kind = "dir"

\* C18: get_dotfiles_entries enqueues the children of a path only when the path
\* itself, not the target of a symlink, is a directory, so nothing reached
\* through a symlinked directory is visited; and on every repository tree, also
\* one with symlinks back to an ancestor, the queue becomes empty and the
\* function returns.
C18_NoSymlinkFollowedAndTermination ==
    /\ [][EnqueuesOnlyDirectories]_vars
    /\ []ReachedThroughDirectories
    /\ (pc = "walk_seed") ~> (pc = "walked" /\ queue = <<>>)

\* the walk has returned on a repository whose `1` is a symlink back to the root
\* and lies on the way to a mapping
C18_Witness ==
    /\ pc = "walked"
    /\ NodeAt(fs, <<3, 4, 1>>) = SymlinkNode(<<3, 4>>)
    /\ \E i \in 1..Len(mappings) : StrictlyBelow(mappings[i], <<1>>)
    /\ NodeAt(fs, <<3, 4, 2, 1>>) = SymlinkNode(<<3, 4>>)

(***************************************************************************)
(* Claims about the result of get_dotfiles_entries                         *)
(***************************************************************************)
\* C19: for a validated mapping list, every mapping has exactly one entry in
\* the result, with state Mapped or Invalid, and no other entry has one of
\* these states; the paths of the entries are pairwise distinct; and no path
\* of an entry is a strict prefix of the path of another entry.
C19_ResultShape ==
    pc = "walked" =>
        /\ \A i \in 1..Len(mappings) :
               /\ Cardinality(EntriesAt(mappings[i])) = 1
               /\ \A k \in EntriesAt(mappings[i]) :
                      dotfiles[k].state \in {"Mapped", "Invalid"}
        /\ \A k \in 1..Len(dotfiles) :
               dotfiles[k].state \in {"Mapped", "Invalid"} =>
                   \E i \in 1..Len(mappings) : mappings[i] = dotfiles[k].path
        /\ \A j, k \in 1..Len(dotfiles) :
               j # k =>
                   /\ dotfiles[j].path # dotfiles[k].path
                   /\ ~StrictlyBelow(dotfiles[j].path, dotfiles[k].path)

\* The shape holds for the mapping lists without the empty path.
C19_ResultShapeNoEmptyMapping ==
    (\A i \in 1..Len(mappings) : mappings[i] # NoPath) => C19_ResultShape

\* a result with a Mapped, an Invalid and an Unmapped entry, one of them found
\* in a traversed directory
ResultWithAllStates ==
    /\ pc = "walked"
    /\ \E j, k, l \in 1..Len(dotfiles) :
           /\ dotfiles[j].state = "Mapped"
           /\ dotfiles[k].state = "Invalid"
           /\ dotfiles[l].state = "Unmapped"
           /\ Len(dotfiles[l].path) = 2

(***************************************************************************)
(* Claims about an applied add plan and the status run after it            *)
(***************************************************************************)
\* the add command planned without error for a path that exists below one of
\* the two roots only, and apply_changes applied the plan to its end
AppliedAddPlan ==
    /\ pc \in {"done", "walk_seed", "walk", "walked", "status", "reported"}
    /\ adds > 0
    /\ result.ok
    /\ HasKind(result.changes, "CreateSymlink")
    /\ changes = <<>>

\* the line status::run prints for entry
StatusLine == get_dotfiles_entry_state(fs, dotfiles_root, entry, home_dir)

====
